---- MODULE Spec2Model ----
(***************************************************************************)
(* A model of TiFs (src/src/fs/tikv_fs.rs): the dispatcher operations of   *)
(* the filesystem, each run as an optimistic transaction under the spin    *)
(* driver, the advisory lock state machine (setlk / setlkw) and the        *)
(* directory operations.                                                   *)
(*                                                                         *)
(* The transaction layer (Txn), the inode and directory records and the    *)
(* open file table (FileHub) live in files of the repository that are not  *)
(* part of src/; they are modelled from the specification's description    *)
(* (sections 3, 4.E, 4.G and the glossary).                                *)
(***************************************************************************)
EXTENDS Integers, Sequences, FiniteSets, TLC

----------------------------------------------------------------------------
(* Bounds of the model *)

\* concurrent dispatcher tasks; in the lock model task p is lock owner p
NumProcs == 2
\* inode numbers 1..MaxIno can be allocated
MaxIno == 3
\* calls one task issues in the bounded (fair) lock specification
MaxCalls == 3
\* inode numbers the single-client filesystem model allocates and names
MaxDirIno == 2
\* file handles ever present in the open file table
MaxFh == 1
\* largest offset / length argument of fallocate
MaxOff == 1
MaxBlock == 1
MaxOpen == 2
MaxCursor == 2
MaxReadOff == 5
\* user ids setattr sets
MaxUid == 2

(* Program constants *)

F_RDLCK == 0
F_WRLCK == 1
F_UNLCK == 2
ROOT_INODE == 1
MAX_NAME_LEN == 256
BLOCK_SIZE == 4096
O_DIRECT == 16384
FOPEN_DIRECT_IO == 1
SEEK_SET == 0
SEEK_CUR == 1
SEEK_END == 2

\* the regular file of the lock model: the first inode made after the root
LockFile == ROOT_INODE + 1

Procs == 1..NumProcs
Inos == 1..MaxIno
Fhs == 1..MaxFh

\* A name is abstracted to a label and its length in bytes.
Names == {<<"a", 1>>, <<"b", MAX_NAME_LEN>>, <<"c", MAX_NAME_LEN + 1>>}
NameLen(name) == name[2]

----------------------------------------------------------------------------
(* Key schema and records *)

MetaKey == <<"meta">>
InodeKey(ino) == <<"inode", ino>>
IndexKey(parent, name) == <<"index", parent, name>>
DirKey(ino) == <<"dir", ino>>
BlockKey(ino, block) == <<"block", ino, block>>

Keys ==
    {MetaKey} \cup {InodeKey(i) : i \in Inos} \cup {DirKey(i) : i \in Inos}
    \cup {IndexKey(d, n) : d \in Inos, n \in Names}
    \cup {BlockKey(i, b) : i \in Inos, b \in 0..MaxBlock}

Absent == [t |-> "absent"]
Meta(next) == [t |-> "meta", inode_next |-> next]
Index(ino) == [t |-> "index", ino |-> ino]
Dir(items) == [t |-> "dir", items |-> items]
Block(data) == [t |-> "block", data |-> data]
DirItem(name, ino, kind) == [name |-> name, ino |-> ino, kind |-> kind]

\* A fresh inode: no lock is held.
NewInode(ino, kind) ==
    [t |-> "inode", ino |-> ino, kind |-> kind, nlink |-> 1, size |-> 0,
     target |-> 0, uid |-> 0, lk_type |-> F_UNLCK, owner_set |-> {}]

EmptyStore == [k \in Keys |-> Absent]

VARIABLES
    kv,       \* the committed contents of the KV store
    hub,      \* the open file table: (ino, fh) -> cursor
    pc,       \* where each task is: idle, begin, txn, after, done
    op,       \* the call each task runs
    snap,     \* the snapshot of the task's open transaction
    stale,    \* keys committed by others since the task's transaction began
    res,      \* the result the call returned
    began,    \* the call has begun a transaction
    wrote,    \* the call has committed a write to the KV store
    granted,  \* the lock each owner was granted and has not released
    ncalls    \* calls issued by each task

vars == <<kv, hub, pc, op, snap, stale, res, began, wrote, granted, ncalls>>

NoOp ==
    [name |-> "none", stage |-> "none", ino |-> 0, typ |-> 0, sleep |-> FALSE,
     parent |-> 0, nm |-> <<"a", 1>>, newparent |-> 0, newnm |-> <<"a", 1>>,
     fh |-> 0, off |-> 0, len |-> 0, flags |-> 0, whence |-> 0, data |-> <<>>,
     start |-> 0, out |-> 0, uid |-> <<>>]

----------------------------------------------------------------------------
(* The transaction layer: a transaction is the snapshot it reads, the puts
   and deletes it has buffered (read-your-writes), and the closure's result *)

TxnStart(s) == [view |-> s, w |-> {}, err |-> "ok", val |-> TRUE]
Put(t, k, v) == [t EXCEPT !.view = [@ EXCEPT ![k] = v], !.w = @ \cup {k}]
Delete(t, k) == Put(t, k, Absent)
Fail(t, e) == [t EXCEPT !.err = e]
Ret(t, v) == [t EXCEPT !.val = v]

HasInode(t, ino) == ino \in Inos /\ t.view[InodeKey(ino)] # Absent
read_inode(t, ino) == t.view[InodeKey(ino)]
save_inode(t, inode) == Put(t, InodeKey(inode.ino), inode)

----------------------------------------------------------------------------
(* The transaction layer's operations on directories and inodes *)

get_index(t, parent, name) == t.view[IndexKey(parent, name)]
set_index(t, parent, name, ino) == Put(t, IndexKey(parent, name), Index(ino))
remove_index(t, parent, name) == Delete(t, IndexKey(parent, name))
remove_inode(t, ino) == Delete(t, InodeKey(ino))
HasDir(t, ino) == ino \in Inos /\ t.view[DirKey(ino)] # Absent
read_dir(t, ino) == t.view[DirKey(ino)].items
save_dir(t, ino, items) == Put(t, DirKey(ino), Dir(items))
read_meta(t) == t.view[MetaKey]

\* the directory without the entries called name
WithoutName(items, name) == SelectSeq(items, LAMBDA item : item.name # name)

\* lookup(parent, name): the inode the name points to
lookup(t, parent, name) ==
    IF get_index(t, parent, name) = Absent THEN Fail(t, "FileNotFound")
    ELSE Ret(t, get_index(t, parent, name).ino)

\* make_inode(parent, name, kind): parent 0 makes an inode that has no entry
make_inode(t, parent, name, kind) ==
    LET meta == IF read_meta(t) = Absent THEN Meta(ROOT_INODE) ELSE read_meta(t)
        ino == meta.inode_next
    IN  IF parent < ROOT_INODE
        THEN Ret(save_inode(Put(t, MetaKey, Meta(ino + 1)), NewInode(ino, kind)),
                 NewInode(ino, kind))
        ELSE IF get_index(t, parent, name) # Absent THEN Fail(t, "FileExist")
        ELSE IF ~HasDir(t, parent) THEN Fail(t, "InodeNotFound")
        ELSE LET t1 == Put(t, MetaKey, Meta(ino + 1))
                 t2 == set_index(t1, parent, name, ino)
                 t3 == save_dir(t2, parent,
                                Append(read_dir(t2, parent), DirItem(name, ino, kind)))
             IN  Ret(save_inode(t3, NewInode(ino, kind)), NewInode(ino, kind))

\* mkdir: make_inode of a directory, and its empty listing
mkdir(t, parent, name) ==
    LET t1 == make_inode(t, parent, name, "Directory") IN
    IF t1.err # "ok" THEN t1 ELSE save_dir(t1, t1.val.ino, <<>>)

\* link(ino, newparent, newname)
link(t, ino, newparent, newname) ==
    IF get_index(t, newparent, newname) # Absent THEN Fail(t, "FileExist")
    ELSE IF ~HasInode(t, ino) \/ ~HasDir(t, newparent) THEN Fail(t, "InodeNotFound")
    ELSE LET inode == [read_inode(t, ino) EXCEPT !.nlink = @ + 1]
             t1 == save_inode(t, inode)
             t2 == set_index(t1, newparent, newname, ino)
             t3 == save_dir(t2, newparent,
                            Append(read_dir(t2, newparent),
                                   DirItem(newname, ino, inode.kind)))
         IN  Ret(t3, inode)

\* unlink(parent, name)
unlink(t, parent, name) ==
    IF get_index(t, parent, name) = Absent THEN Fail(t, "FileNotFound")
    ELSE LET ino == get_index(t, parent, name).ino IN
         IF ~HasInode(t, ino) \/ ~HasDir(t, parent) THEN Fail(t, "InodeNotFound")
         ELSE LET inode == [read_inode(t, ino) EXCEPT !.nlink = @ - 1]
                  t1 == remove_index(t, parent, name)
                  t2 == save_dir(t1, parent, WithoutName(read_dir(t1, parent), name))
              IN  IF inode.nlink = 0 /\ inode.kind # "Directory"
                  THEN Ret(remove_inode(t2, ino), TRUE)
                  ELSE Ret(save_inode(t2, inode), TRUE)

\* write_link(inode, target): the symlink's target, stored inline
write_link(t, inode, target) ==
    save_inode(t, [inode EXCEPT !.target = target, !.size = 1])

\* fallocate(inode, offset, length): size grows to at least offset + length
fallocate(t, inode, offset, length) ==
    Ret(save_inode(t, [inode EXCEPT
            !.size = IF @ < offset + length THEN offset + length ELSE @]), TRUE)

(* The block store: the bytes of a file are kept in blocks of BLOCK_SIZE
   bytes; a block holds the bytes up to the last one written to it, and a
   byte that no block holds reads as zero *)

Min(a, b) == IF a < b THEN a ELSE b
Max(a, b) == IF a < b THEN b ELSE a

\* the byte at position pos of the file
ByteAt(t, ino, pos) ==
    LET blk == t.view[BlockKey(ino, pos \div BLOCK_SIZE)]
        o == pos % BLOCK_SIZE
    IN  IF blk = Absent \/ o >= Len(blk.data) THEN 0 ELSE blk.data[o + 1]

\* read_data(ino, start, Some(size)): the bytes from start, up to size of
\* them, cut at the file's size
read_data(t, ino, start, size) ==
    IF ~HasInode(t, ino) THEN Fail(t, "InodeNotFound")
    ELSE LET end == Min(start + size, read_inode(t, ino).size) IN
         Ret(t, [i \in 1..Max(end - start, 0) |-> ByteAt(t, ino, start + i - 1)])

\* a block put as the bytes written to it alone, without the bytes it had
WrittenBlockOverwrites(t, ino, b, start, data) ==
    LET lo == Max(start, b * BLOCK_SIZE) - b * BLOCK_SIZE
        hi == Min(start + Len(data), (b + 1) * BLOCK_SIZE) - b * BLOCK_SIZE
    IN  Block([j \in 1..hi |->
                  IF lo < j THEN data[b * BLOCK_SIZE + j - start] ELSE 0])

\* the block b after the bytes data are written to the file from start on:
\* the bytes of the block outside the write are kept
WrittenBlock(t, ino, b, start, data) ==
    LET lo == Max(start, b * BLOCK_SIZE) - b * BLOCK_SIZE
        hi == Min(start + Len(data), (b + 1) * BLOCK_SIZE) - b * BLOCK_SIZE
        old == t.view[BlockKey(ino, b)]
        oldlen == IF old = Absent THEN 0 ELSE Len(old.data)
    IN  Block([j \in 1..Max(oldlen, hi) |->
                  IF lo < j /\ j <= hi THEN data[b * BLOCK_SIZE + j - start]
                  ELSE ByteAt(t, ino, b * BLOCK_SIZE + j - 1)])

RECURSIVE PutBlocks(_, _, _, _, _)
PutBlocks(t, ino, b, start, data) ==
    IF b * BLOCK_SIZE >= start + Len(data) THEN t
    ELSE PutBlocks(Put(t, BlockKey(ino, b), WrittenBlock(t, ino, b, start, data)),
                   ino, b + 1, start, data)

\* write_data(ino, start, data): the blocks touched are put, the size becomes
\* max(size, start + len); the value is len
write_data(t, ino, start, data) ==
    IF ~HasInode(t, ino) THEN Fail(t, "InodeNotFound")
    ELSE LET t1 == PutBlocks(t, ino, start \div BLOCK_SIZE, start, data)
             inode == read_inode(t1, ino)
         IN  Ret(save_inode(t1, [inode EXCEPT !.size = Max(@, start + Len(data))]),
                 Len(data))

----------------------------------------------------------------------------
(* The closures of the dispatcher's operations *)

\* init that makes the root directory without looking for it
InitTxnAlwaysMakes(t) == Ret(mkdir(t, 0, <<"", 0>>), TRUE)

InitTxn(t) ==
    IF ~HasInode(t, ROOT_INODE) THEN Ret(mkdir(t, 0, <<"", 0>>), TRUE)
    ELSE Ret(t, TRUE)

LookupTxn(t, parent, name) ==
    LET t1 == lookup(t, parent, name) IN
    IF t1.err # "ok" THEN t1
    ELSE IF ~HasInode(t1, t1.val) THEN Fail(t1, "InodeNotFound")
    ELSE Ret(t1, read_inode(t1, t1.val))

\* rmdir that does not look at the target's listing
RmdirTxnAnyListing(t, parent, name) ==
    IF get_index(t, parent, name) = Absent THEN Fail(t, "FileNotFound")
    ELSE LET ino == get_index(t, parent, name).ino IN
         IF ~HasDir(t, ino) THEN Fail(t, "InodeNotFound")
         ELSE LET t1 == remove_index(t, parent, name)
                  t2 == remove_inode(t1, ino)
              IN  IF ~HasDir(t2, parent) THEN Fail(t2, "InodeNotFound")
                  ELSE Ret(save_dir(t2, parent,
                                    WithoutName(read_dir(t2, parent), name)), TRUE)

RmdirTxn(t, parent, name) ==
    IF get_index(t, parent, name) = Absent THEN Fail(t, "FileNotFound")
    ELSE LET ino == get_index(t, parent, name).ino IN
         IF ~HasDir(t, ino) THEN Fail(t, "InodeNotFound")
         ELSE IF Len(read_dir(t, ino)) # 0 THEN Fail(t, "DirNotEmpty")
         ELSE LET t1 == remove_index(t, parent, name)
                  t2 == remove_inode(t1, ino)
              IN  IF ~HasDir(t2, parent) THEN Fail(t2, "InodeNotFound")
                  ELSE Ret(save_dir(t2, parent,
                                    WithoutName(read_dir(t2, parent), name)), TRUE)

\* rename that leaves the old name in place
RenameTxnKeepOld(t, parent, name, newparent, new_name) ==
    LET t1 == lookup(t, parent, name) IN
    IF t1.err # "ok" THEN t1
    ELSE link(t1, t1.val, newparent, new_name)

RenameTxn(t, parent, name, newparent, new_name) ==
    LET t1 == lookup(t, parent, name) IN
    IF t1.err # "ok" THEN t1
    ELSE LET t2 == link(t1, t1.val, newparent, new_name) IN
         IF t2.err # "ok" THEN t2
         ELSE unlink(t2, parent, name)

SymlinkTxn(t, parent, name, target) ==
    LET t1 == make_inode(t, parent, name, "Symlink") IN
    IF t1.err # "ok" THEN t1 ELSE write_link(t1, t1.val, target)

\* setattr(ino, uid): the inode is read, the attributes given are set, the
\* whole inode is saved; uid is <<>> for None and <<u>> for Some(u)
SetattrTxn(t, ino, uid) ==
    IF ~HasInode(t, ino) THEN Fail(t, "InodeNotFound")
    ELSE LET attr == [read_inode(t, ino) EXCEPT
                          !.uid = IF uid = <<>> THEN @ ELSE uid[1]]
         IN  Ret(save_inode(t, attr), attr)

\* the closures of TiFs::read_inode and TiFs::read_dir
ReadInodeTxn(t, ino) ==
    IF ~HasInode(t, ino) THEN Fail(t, "InodeNotFound") ELSE Ret(t, read_inode(t, ino))

ReadDirTxn(t, ino) ==
    IF ~HasDir(t, ino) THEN Fail(t, "InodeNotFound") ELSE Ret(t, read_dir(t, ino))

FallocateTxn(t, ino, offset, length) ==
    IF ~HasInode(t, ino) THEN Fail(t, "InodeNotFound")
    ELSE fallocate(t, read_inode(t, ino), offset, length)

----------------------------------------------------------------------------
(* The lock state machine: the closure of setlk's transaction *)

\* (mutant) a shared lock is granted without looking at the lock's type
SetlkRdlckNoCheck(t, inode, lock_owner, sleep) ==
    Ret(save_inode(t, [inode EXCEPT !.owner_set = @ \cup {lock_owner},
                                    !.lk_type = F_RDLCK]), TRUE)

\* typ == F_RDLCK
SetlkRdlck(t, inode, lock_owner, sleep) ==
    IF inode.lk_type = F_WRLCK
    THEN IF sleep THEN Ret(t, FALSE) ELSE Fail(t, "InvalidLock")
    ELSE Ret(save_inode(t, [inode EXCEPT !.owner_set = @ \cup {lock_owner},
                                         !.lk_type = F_RDLCK]), TRUE)

\* (mutant) a shared lock is upgraded whenever the caller is one of its owners
SetlkWrlckAnyOwner(t, inode, lock_owner, sleep) ==
    CASE inode.lk_type = F_RDLCK ->
            IF lock_owner \in inode.owner_set
            THEN Ret(save_inode(t, [inode EXCEPT !.lk_type = F_WRLCK]), TRUE)
            ELSE IF sleep THEN Ret(t, FALSE) ELSE Fail(t, "InvalidLock")
      [] inode.lk_type = F_UNLCK ->
            Ret(save_inode(t, [inode EXCEPT !.owner_set = {lock_owner},
                                            !.lk_type = F_WRLCK]), TRUE)
      [] inode.lk_type = F_WRLCK ->
            IF sleep THEN Ret(t, FALSE) ELSE Fail(t, "InvalidLock")
      [] OTHER -> Fail(t, "InvalidLock")

\* typ == F_WRLCK
SetlkWrlck(t, inode, lock_owner, sleep) ==
    CASE inode.lk_type = F_RDLCK ->
            IF Cardinality(inode.owner_set) = 1 /\ lock_owner \in inode.owner_set
            THEN Ret(save_inode(t, [inode EXCEPT !.lk_type = F_WRLCK]), TRUE)
            ELSE IF sleep THEN Ret(t, FALSE) ELSE Fail(t, "InvalidLock")
      [] inode.lk_type = F_UNLCK ->
            Ret(save_inode(t, [inode EXCEPT !.owner_set = {lock_owner},
                                            !.lk_type = F_WRLCK]), TRUE)
      [] inode.lk_type = F_WRLCK ->
            IF sleep THEN Ret(t, FALSE) ELSE Fail(t, "InvalidLock")
      [] OTHER -> Fail(t, "InvalidLock")

\* (mutant) the owner is removed and the lock's type is left as it is
SetlkUnlckKeepType(t, inode, lock_owner) ==
    Ret(save_inode(t, [inode EXCEPT !.owner_set = @ \ {lock_owner}]), TRUE)

\* (mutant) the unlock releases the lock of every owner
SetlkUnlckClears(t, inode, lock_owner) ==
    Ret(save_inode(t, [inode EXCEPT !.owner_set = {}, !.lk_type = F_UNLCK]), TRUE)

\* typ == F_UNLCK
SetlkUnlck(t, inode, lock_owner) ==
    LET owners == inode.owner_set \ {lock_owner} IN
    Ret(save_inode(t, [inode EXCEPT !.owner_set = owners,
                                    !.lk_type = IF owners = {} THEN F_UNLCK ELSE @]),
        TRUE)

\* (mutant) the inode's kind is not looked at
SetlkKindCheckOff(inode) == FALSE

\* Directories may not be locked.
SetlkKindCheck(inode) == inode.kind = "Directory"

SetlkTxn(t, ino, lock_owner, typ, sleep) ==
    IF ~HasInode(t, ino) THEN Fail(t, "InodeNotFound")
    ELSE LET inode == read_inode(t, ino) IN
         IF SetlkKindCheck(inode) THEN Fail(t, "InvalidLock")
         ELSE CASE typ = F_RDLCK -> SetlkRdlck(t, inode, lock_owner, sleep)
                [] typ = F_WRLCK -> SetlkWrlck(t, inode, lock_owner, sleep)
                [] typ = F_UNLCK -> SetlkUnlck(t, inode, lock_owner)
                [] OTHER -> Fail(t, "InvalidLock")

(* The closure of setlkw's transaction *)

\* (mutant) a waiting exclusive request is granted whenever the caller is one
\* of the owners
SetlkwWrlckAnyOwner(t, inode, lock_owner) ==
    IF inode.owner_set = {}
    THEN Ret(save_inode(t, [inode EXCEPT !.lk_type = F_WRLCK,
                                         !.owner_set = @ \cup {lock_owner}]), TRUE)
    ELSE IF lock_owner \in inode.owner_set
    THEN Ret(save_inode(t, [inode EXCEPT !.lk_type = F_WRLCK]), TRUE)
    ELSE IF Cardinality(inode.owner_set) > 1 THEN Ret(t, FALSE)
    ELSE Fail(t, "InvalidLock")

SetlkwWrlck(t, inode, lock_owner) ==
    IF Cardinality(inode.owner_set) > 1 THEN Ret(t, FALSE)
    ELSE IF inode.owner_set = {}
    THEN Ret(save_inode(t, [inode EXCEPT !.lk_type = F_WRLCK,
                                         !.owner_set = @ \cup {lock_owner}]), TRUE)
    ELSE IF lock_owner \in inode.owner_set
    THEN Ret(save_inode(t, [inode EXCEPT !.lk_type = F_WRLCK]), TRUE)
    ELSE Fail(t, "InvalidLock")

\* (mutant) a waiting shared request is granted only once the lock is free
SetlkwRdlckOnlyFree(t, inode, lock_owner) ==
    IF inode.lk_type # F_UNLCK THEN Ret(t, FALSE)
    ELSE Ret(save_inode(t, [inode EXCEPT !.lk_type = F_RDLCK,
                                         !.owner_set = @ \cup {lock_owner}]), TRUE)

\* (mutant) a waiting shared request is granted with the lock's type left as
\* it is
SetlkwRdlckKeepsType(t, inode, lock_owner) ==
    IF inode.lk_type = F_WRLCK THEN Ret(t, FALSE)
    ELSE Ret(save_inode(t, [inode EXCEPT !.owner_set = @ \cup {lock_owner}]), TRUE)

SetlkwRdlck(t, inode, lock_owner) ==
    IF inode.lk_type = F_WRLCK THEN Ret(t, FALSE)
    ELSE Ret(save_inode(t, [inode EXCEPT !.lk_type = F_RDLCK,
                                         !.owner_set = @ \cup {lock_owner}]), TRUE)

SetlkwTxn(t, ino, lock_owner, typ) ==
    IF ~HasInode(t, ino) THEN Fail(t, "InodeNotFound")
    ELSE LET inode == read_inode(t, ino) IN
         CASE typ = F_WRLCK -> SetlkwWrlck(t, inode, lock_owner)
           [] typ = F_RDLCK -> SetlkwRdlck(t, inode, lock_owner)
           [] OTHER -> Fail(t, "InvalidLock")

----------------------------------------------------------------------------
(* The closure a call runs in its transaction *)

Closure(p, o, s) ==
    CASE o.name = "setlk" /\ o.stage = "setlk" ->
            SetlkTxn(TxnStart(s), o.ino, p, o.typ, o.sleep)
      [] o.name = "setlk" /\ o.stage = "setlkw" ->
            SetlkwTxn(TxnStart(s), o.ino, p, o.typ)
      [] o.name = "init" -> InitTxn(TxnStart(s))
      [] o.name = "lookup" -> LookupTxn(TxnStart(s), o.parent, o.nm)
      [] o.name = "mkdir" -> mkdir(TxnStart(s), o.parent, o.nm)
      [] o.name = "rmdir" -> RmdirTxn(TxnStart(s), o.parent, o.nm)
      [] o.name \in {"mknod", "create"} ->
            make_inode(TxnStart(s), o.parent, o.nm, "RegularFile")
      [] o.name = "link" -> link(TxnStart(s), o.ino, o.newparent, o.newnm)
      [] o.name = "unlink" -> unlink(TxnStart(s), o.parent, o.nm)
      [] o.name = "rename" ->
            RenameTxn(TxnStart(s), o.parent, o.nm, o.newparent, o.newnm)
      [] o.name = "symlink" -> SymlinkTxn(TxnStart(s), o.parent, o.nm, 1)
      [] o.name = "fallocate" -> FallocateTxn(TxnStart(s), o.ino, o.off, o.len)
      [] o.name = "read" -> read_data(TxnStart(s), o.ino, o.start, o.len)
      [] o.name = "write" -> write_data(TxnStart(s), o.ino, o.start, o.data)
      [] o.name = "lseek" -> ReadInodeTxn(TxnStart(s), o.ino)
      [] o.name = "readdir" -> ReadDirTxn(TxnStart(s), o.ino)
      [] o.name = "setattr" -> SetattrTxn(TxnStart(s), o.ino, o.uid)
      [] OTHER -> Fail(TxnStart(s), "Other")

Attempt(p) == Closure(p, op[p], snap[p])

----------------------------------------------------------------------------
(* process_txn and spin *)

\* commit succeeds iff no key the transaction wrote was committed by another
\* transaction after this one began
CanCommit(p, t) == t.w \cap stale[p] = {}

\* txn.commit(): the buffered writes reach the store in one step
Commit(p, t) ==
    /\ kv' = [k \in Keys |-> IF k \in t.w THEN t.view[k] ELSE kv[k]]
    /\ stale' = [q \in Procs |->
                    IF q # p /\ pc[q] = "txn" THEN stale[q] \cup t.w ELSE {}]
    /\ wrote' = [wrote EXCEPT ![p] = @ \/ t.w # {}]

\* (mutant) a commit that never meets a conflict
ProcessOkNoConflict(p, t) == t.err = "ok" /\ Commit(p, t)

\* the closure returned Ok(v): commit, and v is the result
ProcessOk(p, t) == t.err = "ok" /\ CanCommit(p, t) /\ Commit(p, t)

\* Txn::begin_optimistic
Begin(p) ==
    /\ pc[p] = "begin"
    /\ pc' = [pc EXCEPT ![p] = "txn"]
    /\ snap' = [snap EXCEPT ![p] = kv]
    /\ stale' = [stale EXCEPT ![p] = {}]
    /\ began' = [began EXCEPT ![p] = TRUE]
    /\ UNCHANGED <<kv, hub, op, res, wrote, granted, ncalls>>

\* spin that ends with the KeyError
SpinKeyErrorGivesUp(p) ==
    /\ pc[p] = "txn"
    /\ LET t == Attempt(p) IN t.err = "ok" /\ ~CanCommit(p, t)
    /\ pc' = [pc EXCEPT ![p] = "done"]
    /\ res' = [res EXCEPT ![p] = "KeyError"]
    /\ stale' = [stale EXCEPT ![p] = {}]
    /\ UNCHANGED <<kv, hub, op, snap, began, wrote, granted, ncalls>>

\* commit fails with KeyError: spin begins a fresh transaction
SpinKeyError(p) ==
    /\ pc[p] = "txn"
    /\ LET t == Attempt(p) IN t.err = "ok" /\ ~CanCommit(p, t)
    /\ pc' = [pc EXCEPT ![p] = "begin"]
    /\ snap' = [snap EXCEPT ![p] = EmptyStore]
    /\ stale' = [stale EXCEPT ![p] = {}]
    /\ UNCHANGED <<kv, hub, op, res, began, wrote, granted, ncalls>>

\* spin that begins a fresh transaction after any error
RollbackRetries(p) ==
    /\ pc[p] = "txn"
    /\ Attempt(p).err # "ok"
    /\ pc' = [pc EXCEPT ![p] = "begin"]
    /\ snap' = [snap EXCEPT ![p] = EmptyStore]
    /\ stale' = [stale EXCEPT ![p] = {}]
    /\ UNCHANGED <<kv, hub, op, res, began, wrote, granted, ncalls>>

\* the closure returned Err(e): rollback, spin ends, the call returns e
Rollback(p) ==
    /\ pc[p] = "txn"
    /\ Attempt(p).err # "ok"
    /\ pc' = [pc EXCEPT ![p] = "done"]
    /\ res' = [res EXCEPT ![p] = Attempt(p).err]
    /\ stale' = [stale EXCEPT ![p] = {}]
    /\ UNCHANGED <<kv, hub, op, snap, began, wrote, granted, ncalls>>

\* the caller takes the result
Return(p) ==
    /\ pc[p] = "done"
    /\ pc' = [pc EXCEPT ![p] = "idle"]
    /\ op' = [op EXCEPT ![p] = NoOp]
    /\ res' = [res EXCEPT ![p] = "none"]
    /\ snap' = [snap EXCEPT ![p] = EmptyStore]
    /\ began' = [began EXCEPT ![p] = FALSE]
    /\ wrote' = [wrote EXCEPT ![p] = FALSE]
    /\ UNCHANGED <<kv, hub, stale, granted, ncalls>>

----------------------------------------------------------------------------
(* setlk and setlkw *)

LockTypes == {F_RDLCK, F_WRLCK, F_UNLCK}

StartCall(p, o) ==
    /\ pc[p] = "idle"
    /\ pc' = [pc EXCEPT ![p] = "begin"]
    /\ op' = [op EXCEPT ![p] = o]
    /\ UNCHANGED <<kv, hub, snap, stale, res, began, wrote, granted>>

\* setlk(ino, lock_owner = p, typ, sleep) is called
Setlk(p) ==
    \E ino \in Inos, typ \in LockTypes, sleep \in BOOLEAN :
        /\ StartCall(p, [NoOp EXCEPT !.name = "setlk", !.stage = "setlk",
                                     !.ino = ino, !.typ = typ, !.sleep = sleep])
        /\ UNCHANGED ncalls

\* a call on the regular file, by a task that issues at most MaxCalls calls
SetlkBounded(p) ==
    \E ino \in {LockFile}, typ \in LockTypes, sleep \in BOOLEAN :
        /\ ncalls[p] < MaxCalls
        /\ StartCall(p, [NoOp EXCEPT !.name = "setlk", !.stage = "setlk",
                                     !.ino = ino, !.typ = typ, !.sleep = sleep])
        /\ ncalls' = [ncalls EXCEPT ![p] = @ + 1]

Grant(p) ==
    /\ pc' = [pc EXCEPT ![p] = "done"]
    /\ res' = [res EXCEPT ![p] = "ok"]
    /\ granted' = [granted EXCEPT ![p][op[p].ino] = op[p].typ]
    /\ UNCHANGED <<hub, op, snap, began, ncalls>>

\* the first transaction returned Ok(true): setlk returns Ok
SetlkDone(p) ==
    /\ pc[p] = "txn" /\ op[p].name = "setlk" /\ op[p].stage = "setlk"
    /\ LET t == Attempt(p) IN ProcessOk(p, t) /\ t.val = TRUE
    /\ Grant(p)

\* the first transaction returned Ok(false): setlk calls setlkw
SetlkSleep(p) ==
    /\ pc[p] = "txn" /\ op[p].name = "setlk" /\ op[p].stage = "setlk"
    /\ LET t == Attempt(p) IN ProcessOk(p, t) /\ t.val = FALSE
    /\ pc' = [pc EXCEPT ![p] = "begin"]
    /\ op' = [op EXCEPT ![p].stage = "setlkw"]
    /\ snap' = [snap EXCEPT ![p] = EmptyStore]
    /\ UNCHANGED <<hub, res, began, granted, ncalls>>

\* a transaction of setlkw returned Ok(true): the loop breaks, setlk returns Ok
SetlkwDone(p) ==
    /\ pc[p] = "txn" /\ op[p].name = "setlk" /\ op[p].stage = "setlkw"
    /\ LET t == Attempt(p) IN ProcessOk(p, t) /\ t.val = TRUE
    /\ Grant(p)

\* a transaction of setlkw returned Ok(false): the loop runs it again
SetlkwAgain(p) ==
    /\ pc[p] = "txn" /\ op[p].name = "setlk" /\ op[p].stage = "setlkw"
    /\ LET t == Attempt(p) IN ProcessOk(p, t) /\ t.val = FALSE
    /\ pc' = [pc EXCEPT ![p] = "begin"]
    /\ snap' = [snap EXCEPT ![p] = EmptyStore]
    /\ UNCHANGED <<hub, op, res, began, granted, ncalls>>

----------------------------------------------------------------------------
(* The dispatcher's operations on names, inodes and handles *)

MetaNext(s) == IF s[MetaKey] = Absent THEN ROOT_INODE ELSE s[MetaKey].inode_next

Creates == {"init", "mkdir", "mknod", "create", "symlink"}

\* calls in flight that allocate an inode
Allocating == {q \in Procs : pc[q] \in {"begin", "txn"} /\ op[q].name \in Creates}

\* the model allocates inodes up to m: a creating call starts while one is left
CanAllocate(m) == MetaNext(kv) + Cardinality(Allocating) <= m

check_file_name(name) == NameLen(name) <= MAX_NAME_LEN

\* the names an operation validates before it begins its transaction
CheckedNames(o) ==
    CASE o.name \in {"lookup", "mkdir", "rmdir", "mknod", "create", "symlink"} -> {o.nm}
      [] o.name = "link" -> {o.newnm}
      [] o.name = "rename" -> {o.nm, o.newnm}
      [] OTHER -> {}

\* an operation is called: its names are checked, then spin begins
Dispatched(p, o) ==
    /\ op' = [op EXCEPT ![p] = o]
    /\ IF \A name \in CheckedNames(o) : check_file_name(name)
       THEN pc' = [pc EXCEPT ![p] = "begin"] /\ res' = res
       ELSE pc' = [pc EXCEPT ![p] = "done"]
            /\ res' = [res EXCEPT ![p] = "NameTooLong"]
    /\ UNCHANGED <<kv, hub, snap, stale, began, wrote, granted>>

Dispatch(p, o) == Dispatched(p, o) /\ UNCHANGED ncalls

(* The calls; their inode arguments are drawn from 1..m *)

InitFs(p, m) ==
    /\ pc[p] = "idle" /\ CanAllocate(m)
    /\ Dispatch(p, [NoOp EXCEPT !.name = "init"])

Lookup(p, m) ==
    \E parent \in 1..m, name \in Names :
        /\ pc[p] = "idle"
        /\ Dispatch(p, [NoOp EXCEPT !.name = "lookup", !.parent = parent, !.nm = name])

\* the calls the tasks 1..n have made
RECURSIVE CallsMade(_)
CallsMade(n) == IF n = 0 THEN 0 ELSE ncalls[n] + CallsMade(n - 1)

MkdirCall(p, m) ==
    \E parent \in 1..m, name \in Names :
        /\ pc[p] = "idle"
        /\ Dispatched(p, [NoOp EXCEPT !.name = "mkdir", !.parent = parent, !.nm = name])

Mkdir(p, m) == CanAllocate(m) /\ MkdirCall(p, m) /\ UNCHANGED ncalls

\* mkdir, while the tasks together have made fewer than MaxCalls calls
MkdirBounded(p, m) ==
    /\ CallsMade(NumProcs) < MaxCalls /\ CanAllocate(MaxIno)
    /\ MkdirCall(p, m)
    /\ ncalls' = [ncalls EXCEPT ![p] = @ + 1]

Rmdir(p, m) ==
    \E parent \in 1..m, name \in Names :
        /\ pc[p] = "idle"
        /\ Dispatch(p, [NoOp EXCEPT !.name = "rmdir", !.parent = parent, !.nm = name])

Mknod(p, m) ==
    \E parent \in 1..m, name \in Names :
        /\ pc[p] = "idle" /\ CanAllocate(m)
        /\ Dispatch(p, [NoOp EXCEPT !.name = "mknod", !.parent = parent, !.nm = name])

Create(p, m) ==
    \E parent \in 1..m, name \in Names :
        /\ pc[p] = "idle" /\ CanAllocate(m)
        /\ hub.next <= MaxFh
        /\ Dispatch(p, [NoOp EXCEPT !.name = "create", !.parent = parent, !.nm = name])

Symlink(p, m) ==
    \E parent \in 1..m, name \in Names :
        /\ pc[p] = "idle" /\ CanAllocate(m)
        /\ Dispatch(p, [NoOp EXCEPT !.name = "symlink", !.parent = parent, !.nm = name])

Link(p, m) ==
    \E ino \in 1..m, newparent \in 1..m, newname \in Names :
        /\ pc[p] = "idle"
        /\ Dispatch(p, [NoOp EXCEPT !.name = "link", !.ino = ino,
                                    !.newparent = newparent, !.newnm = newname])

Unlink(p, m) ==
    \E parent \in 1..m, name \in Names :
        /\ pc[p] = "idle"
        /\ Dispatch(p, [NoOp EXCEPT !.name = "unlink", !.parent = parent, !.nm = name])

RenameCall(p, m) ==
    \E parent \in 1..m, name \in Names, newparent \in 1..m, new_name \in Names :
        /\ pc[p] = "idle"
        /\ Dispatched(p, [NoOp EXCEPT !.name = "rename", !.parent = parent, !.nm = name,
                                      !.newparent = newparent, !.newnm = new_name])

Rename(p, m) == RenameCall(p, m) /\ UNCHANGED ncalls

\* rename, while the tasks together have made fewer than MaxCalls calls
RenameBounded(p, m) ==
    /\ CallsMade(NumProcs) < MaxCalls
    /\ RenameCall(p, m)
    /\ ncalls' = [ncalls EXCEPT ![p] = @ + 1]

Fallocate(p, m) ==
    \E ino \in 1..m, fh \in Fhs, offset \in 0..MaxOff, length \in 1..MaxOff :
        /\ pc[p] = "idle"
        /\ Dispatch(p, [NoOp EXCEPT !.name = "fallocate", !.ino = ino, !.fh = fh,
                                    !.off = offset, !.len = length])

\* hub.make(ino): a fresh fh, its cursor at 0
HubMake(h, ino) ==
    [h EXCEPT !.next = @ + 1,
              !.handles = @ \cup {[ino |-> ino, fh |-> h.next, cursor |-> 0]}]

\* hub.get(ino, fh)
HubGet(h, ino, fh) == {x \in h.handles : x.ino = ino /\ x.fh = fh}

\* hub.close(ino, fh)
HubClose(h, ino, fh) == [h EXCEPT !.handles = @ \ HubGet(h, ino, fh)]

HubSeek(h, ino, fh, cursor) ==
    [h EXCEPT !.handles = (@ \ HubGet(h, ino, fh))
                          \cup {[ino |-> ino, fh |-> fh, cursor |-> cursor]}]

\* a | b on non-negative integers
RECURSIVE BitOr(_, _)
BitOr(a, b) ==
    IF a = 0 THEN b
    ELSE IF b = 0 THEN a
    ELSE 2 * BitOr(a \div 2, b \div 2) + (IF a % 2 = 1 \/ b % 2 = 1 THEN 1 ELSE 0)

\* open_flags as open computes them: the test is (flags | O_DIRECT) != 0
OpenFlags(direct_io, flags) ==
    IF direct_io \/ BitOr(flags, O_DIRECT) # 0 THEN BitOr(0, FOPEN_DIRECT_IO) ELSE 0

\* open(ino, flags), while fewer than n handles have been made
OpenCall(p, inos, flagset, n) ==
    \E ino \in inos, flags \in flagset :
        /\ pc[p] = "idle"
        /\ hub.next <= n
        /\ hub' = HubMake(hub, ino)
        /\ op' = [op EXCEPT ![p] =
                      [NoOp EXCEPT !.name = "open", !.ino = ino, !.flags = flags,
                                   !.fh = hub.next,
                                   !.out = OpenFlags(hub.direct_io, flags)]]
        /\ pc' = [pc EXCEPT ![p] = "done"]
        /\ res' = [res EXCEPT ![p] = "ok"]
        /\ UNCHANGED <<kv, snap, stale, began, wrote, granted, ncalls>>

Open(p, m) == OpenCall(p, 1..m, {0}, MaxFh)

\* release that closes every handle of the inode
ReleaseCallEveryHandle(p, inos, fhs) ==
    \E ino \in inos, fh \in fhs :
        /\ pc[p] = "idle"
        /\ hub' = [hub EXCEPT !.handles = {x \in @ : x.ino # ino}]
        /\ op' = [op EXCEPT ![p] = [NoOp EXCEPT !.name = "release", !.ino = ino,
                                                !.fh = fh]]
        /\ pc' = [pc EXCEPT ![p] = "done"]
        /\ res' = [res EXCEPT ![p] =
                      IF HubGet(hub, ino, fh) = {} THEN "FhNotFound" ELSE "ok"]
        /\ UNCHANGED <<kv, snap, stale, began, wrote, granted, ncalls>>

\* release(ino, fh)
ReleaseCall(p, inos, fhs) ==
    \E ino \in inos, fh \in fhs :
        /\ pc[p] = "idle"
        /\ hub' = HubClose(hub, ino, fh)
        /\ op' = [op EXCEPT ![p] = [NoOp EXCEPT !.name = "release", !.ino = ino,
                                                !.fh = fh]]
        /\ pc' = [pc EXCEPT ![p] = "done"]
        /\ res' = [res EXCEPT ![p] =
                      IF HubGet(hub, ino, fh) = {} THEN "FhNotFound" ELSE "ok"]
        /\ UNCHANGED <<kv, snap, stale, began, wrote, granted, ncalls>>

Release(p, m) == ReleaseCall(p, 1..m, Fhs)

\* the cursor of the handle (ino, fh), which is in the table
CursorOf(h, ino, fh) == (CHOOSE x \in HubGet(h, ino, fh) : TRUE).cursor

\* a call that fails before any transaction: the handle is not in the table,
\* or cursor + offset is negative
EarlyReturn(p, o, e) ==
    /\ op' = [op EXCEPT ![p] = o]
    /\ pc' = [pc EXCEPT ![p] = "done"]
    /\ res' = [res EXCEPT ![p] = e]
    /\ UNCHANGED <<kv, hub, snap, stale, began, wrote, granted, ncalls>>

\* read and write: read_fh, start = cursor + offset, then the data transaction
\* read and write that start at the offset, whatever the cursor
DataCallAtOffset(p, o) ==
    IF HubGet(hub, o.ino, o.fh) = {} THEN EarlyReturn(p, o, "FhNotFound")
    ELSE IF o.off < 0 THEN EarlyReturn(p, o, "InvalidOffset")
    ELSE Dispatch(p, [o EXCEPT !.start = o.off])

DataCall(p, o) ==
    IF HubGet(hub, o.ino, o.fh) = {} THEN EarlyReturn(p, o, "FhNotFound")
    ELSE LET start == CursorOf(hub, o.ino, o.fh) + o.off IN
         IF start < 0 THEN EarlyReturn(p, o, "InvalidOffset")
         ELSE Dispatch(p, [o EXCEPT !.start = start])

\* read(ino, fh, offset, size)
ReadCall(p, inos, fhs, offs, sizes) ==
    \E ino \in inos, fh \in fhs, offset \in offs, size \in sizes :
        /\ pc[p] = "idle"
        /\ DataCall(p, [NoOp EXCEPT !.name = "read", !.ino = ino, !.fh = fh,
                                    !.off = offset, !.len = size])

\* write(ino, fh, offset, data)
WriteCall(p, inos, fhs, offs, payloads) ==
    \E ino \in inos, fh \in fhs, offset \in offs, data \in payloads :
        /\ pc[p] = "idle"
        /\ DataCall(p, [NoOp EXCEPT !.name = "write", !.ino = ino, !.fh = fh,
                                    !.off = offset, !.data = data])

\* SEEK_END that counts from 0
SeekTargetEndFromZero(whence, offset, cursor, size) ==
    CASE whence = SEEK_SET -> offset
      [] whence = SEEK_CUR -> cursor + offset
      [] whence = SEEK_END -> offset

\* the cursor lseek aims at
SeekTarget(whence, offset, cursor, size) ==
    CASE whence = SEEK_SET -> offset
      [] whence = SEEK_CUR -> cursor + offset
      [] whence = SEEK_END -> size + offset

\* lseek(ino, fh, offset, whence): read_fh, the cursor, then read_inode; the
\* calls are those that leave the cursor at maxcur at most
LseekCall(p, inos, fhs, offs, whences, maxcur) ==
    \E ino \in inos, fh \in fhs, offset \in offs, whence \in whences :
        LET o == [NoOp EXCEPT !.name = "lseek", !.ino = ino, !.fh = fh,
                              !.off = offset, !.whence = whence]
        IN  /\ pc[p] = "idle"
            /\ IF HubGet(hub, ino, fh) = {} THEN EarlyReturn(p, o, "FhNotFound")
               ELSE /\ (whence \in {SEEK_SET, SEEK_CUR, SEEK_END}
                         /\ kv[InodeKey(ino)] # Absent)
                       => SeekTarget(whence, offset, CursorOf(hub, ino, fh),
                                     kv[InodeKey(ino)].size) <= maxcur
                    /\ Dispatch(p, [o EXCEPT !.start = CursorOf(hub, ino, fh)])

\* readdir(ino, fh, offset)
ReaddirCall(p, inos, offs) ==
    \E ino \in inos, offset \in offs :
        /\ pc[p] = "idle"
        /\ Dispatch(p, [NoOp EXCEPT !.name = "readdir", !.ino = ino, !.off = offset])

\* readdir that skips offset stored entries
ReaddirReplySkipsOffset(ino, offset, directory) ==
    LET dotdot == IF offset = 0
                  THEN <<DirItem(<<"..", 2>>, ROOT_INODE, "Directory")>> ELSE <<>>
        dot == IF offset <= 1 THEN <<DirItem(<<".", 1>>, ino, "Directory")>> ELSE <<>>
    IN  dotdot \o dot \o SubSeq(directory, offset + 1, Len(directory))

\* the entries readdir returns for the stored listing directory
ReaddirReply(ino, offset, directory) ==
    LET dotdot == IF offset = 0
                  THEN <<DirItem(<<"..", 2>>, ROOT_INODE, "Directory")>> ELSE <<>>
        dot == IF offset <= 1 THEN <<DirItem(<<".", 1>>, ino, "Directory")>> ELSE <<>>
        skip == offset - Min(2, offset)
    IN  dotdot \o dot \o SubSeq(directory, skip + 1, Len(directory))

\* setattr(ino, uid)
SetattrCall(p, inos, uids) ==
    \E ino \in inos, uid \in uids :
        /\ pc[p] = "idle"
        /\ Dispatch(p, [NoOp EXCEPT !.name = "setattr", !.ino = ino, !.uid = uid])

\* what the call returns of the value v of its transaction
Reply(o, v) ==
    CASE o.name \in {"read", "write", "lseek", "setattr"} -> v
      [] o.name = "readdir" -> ReaddirReply(o.ino, o.off, v)
      [] OTHER -> o.out

\* operations that go on after their transaction has committed
TwoStep == {"create", "fallocate", "lseek"}
FsOps == {"init", "lookup", "mkdir", "rmdir", "mknod", "create", "symlink", "link",
          "unlink", "rename", "fallocate", "read", "write", "lseek", "readdir",
          "setattr"}

\* spin returned Ok: the operation's transaction is committed
FsCommitted(p) ==
    /\ pc[p] = "txn" /\ op[p].name \in FsOps
    /\ ProcessOk(p, Attempt(p))
    /\ op' = [op EXCEPT ![p].ino =
                  IF op[p].name = "create" THEN Attempt(p).val.ino ELSE @,
                         ![p].out = Reply(op[p], Attempt(p).val)]
    /\ IF op[p].name \in TwoStep
       THEN pc' = [pc EXCEPT ![p] = "after"] /\ res' = res
       ELSE pc' = [pc EXCEPT ![p] = "done"] /\ res' = [res EXCEPT ![p] = "ok"]
    /\ UNCHANGED <<hub, snap, began, granted, ncalls>>

\* create: mknod has returned its entry, open makes the handle
CreateOpen(p) ==
    /\ pc[p] = "after" /\ op[p].name = "create"
    /\ hub' = HubMake(hub, op[p].ino)
    /\ op' = [op EXCEPT ![p].fh = hub.next]
    /\ pc' = [pc EXCEPT ![p] = "done"]
    /\ res' = [res EXCEPT ![p] = "ok"]
    /\ UNCHANGED <<kv, snap, stale, began, wrote, granted, ncalls>>

\* fallocate: after the transaction, the handle's cursor moves to offset + length
FallocateCursor(p) ==
    /\ pc[p] = "after" /\ op[p].name = "fallocate"
    /\ IF HubGet(hub, op[p].ino, op[p].fh) = {}
       THEN hub' = hub /\ res' = [res EXCEPT ![p] = "FhNotFound"]
       ELSE /\ hub' = HubSeek(hub, op[p].ino, op[p].fh, op[p].off + op[p].len)
            /\ res' = [res EXCEPT ![p] = "ok"]
    /\ pc' = [pc EXCEPT ![p] = "done"]
    /\ UNCHANGED <<kv, op, snap, stale, began, wrote, granted, ncalls>>

\* lseek: the inode is read, the cursor moves to the target
LseekCursor(p) ==
    /\ pc[p] = "after" /\ op[p].name = "lseek"
    /\ pc' = [pc EXCEPT ![p] = "done"]
    /\ IF op[p].whence \notin {SEEK_SET, SEEK_CUR, SEEK_END}
       THEN /\ res' = [res EXCEPT ![p] = "UnknownWhence"]
            /\ UNCHANGED <<hub, op>>
       ELSE LET target == SeekTarget(op[p].whence, op[p].off, op[p].start,
                                     op[p].out.size)
            IN  IF target < 0
                THEN /\ res' = [res EXCEPT ![p] = "InvalidOffset"]
                     /\ UNCHANGED <<hub, op>>
                ELSE /\ res' = [res EXCEPT ![p] = "ok"]
                     /\ hub' = IF HubGet(hub, op[p].ino, op[p].fh) = {} THEN hub
                               ELSE HubSeek(hub, op[p].ino, op[p].fh, target)
                     /\ op' = [op EXCEPT ![p].out = target]
    /\ UNCHANGED <<kv, snap, stale, began, wrote, granted, ncalls>>

FsCalls(p, m) ==
    \/ InitFs(p, m)
    \/ Lookup(p, m)
    \/ Mkdir(p, m)
    \/ Rmdir(p, m)
    \/ Mknod(p, m)
    \/ Create(p, m)
    \/ Symlink(p, m)
    \/ Link(p, m)
    \/ Unlink(p, m)
    \/ Rename(p, m)
    \/ Fallocate(p, m)
    \/ Open(p, m)
    \/ Release(p, m)

FsSteps(p) ==
    \/ Begin(p)
    \/ Rollback(p)
    \/ FsCommitted(p)
    \/ CreateOpen(p)
    \/ FallocateCursor(p)
    \/ Return(p)

----------------------------------------------------------------------------
(* The lock model: the root directory and one regular file "a" in it *)

LockStore ==
    [k \in Keys |->
        CASE k = MetaKey -> Meta(3)
          [] k = InodeKey(ROOT_INODE) -> NewInode(ROOT_INODE, "Directory")
          [] k = InodeKey(LockFile) -> NewInode(LockFile, "RegularFile")
          [] k = DirKey(ROOT_INODE) -> Dir(<<DirItem(<<"a", 1>>, LockFile, "RegularFile")>>)
          [] k = IndexKey(ROOT_INODE, <<"a", 1>>) -> Index(LockFile)
          [] OTHER -> Absent]

InitTasks ==
    /\ hub = [next |-> 1, handles |-> {}, direct_io |-> FALSE]
    /\ pc = [p \in Procs |-> "idle"]
    /\ op = [p \in Procs |-> NoOp]
    /\ snap = [p \in Procs |-> EmptyStore]
    /\ stale = [p \in Procs |-> {}]
    /\ res = [p \in Procs |-> "none"]
    /\ began = [p \in Procs |-> FALSE]
    /\ wrote = [p \in Procs |-> FALSE]
    /\ granted = [p \in Procs |-> [i \in Inos |-> F_UNLCK]]
    /\ ncalls = [p \in Procs |-> 0]

InitLock == kv = LockStore /\ InitTasks

LockSteps(p) ==
    \/ Begin(p)
    \/ SpinKeyError(p)
    \/ Rollback(p)
    \/ SetlkDone(p)
    \/ SetlkSleep(p)
    \/ SetlkwDone(p)
    \/ SetlkwAgain(p)

NextLock == \E p \in Procs : Setlk(p) \/ LockSteps(p) \/ Return(p)

SpecLock == InitLock /\ [][NextLock]_vars

\* the calls on the regular file, each task issuing at most MaxCalls calls;
\* a task whose call can take a step takes one in the end
NextLockBounded == \E p \in Procs : SetlkBounded(p) \/ LockSteps(p) \/ Return(p)

FairLock ==
    InitLock /\ [][NextLockBounded]_vars /\ \A p \in Procs : WF_vars(LockSteps(p))

----------------------------------------------------------------------------
(* The advisory lock: properties *)

LockOf(s, ino) == s[InodeKey(ino)]
IsSetlk(p, ino) == op[p].name = "setlk" /\ op[p].ino = ino

\* C1: mutual exclusion. While an owner holds the exclusive lock of an inode
\* (its setlk(exclusive) has returned success and it has committed no unlock
\* since), no other owner has been granted a shared or an exclusive lock of it.
C1_MutualExclusion ==
    \A p \in Procs, q \in Procs, i \in Inos :
        (p # q /\ granted[p][i] = F_WRLCK) => granted[q][i] = F_UNLCK

\* an owner holds the exclusive lock and another owner's request has failed
C1_Witness ==
    \E p \in Procs, q \in Procs :
        /\ p # q /\ granted[p][LockFile] = F_WRLCK
        /\ IsSetlk(q, LockFile) /\ op[q].typ \in {F_RDLCK, F_WRLCK}
        /\ pc[q] = "done" /\ res[q] = "InvalidLock"

\* C2: in every committed inode, the lock type is F_UNLCK iff the owner set
\* is empty.
C2_NoneIffEmpty ==
    \A i \in Inos :
        kv[InodeKey(i)] # Absent =>
            (LockOf(kv, i).lk_type = F_UNLCK <=> LockOf(kv, i).owner_set = {})

\* an unlock has committed and has left another owner's shared lock in place
C2_Witness ==
    \E p \in Procs :
        /\ IsSetlk(p, LockFile) /\ op[p].typ = F_UNLCK
        /\ pc[p] = "done" /\ res[p] = "ok" /\ wrote[p]
        /\ LockOf(kv, LockFile).owner_set # {}
        /\ LockOf(kv, LockFile).lk_type = F_RDLCK

\* C3: a blocking setlk(shared or exclusive) on a regular file never fails with
\* InvalidLock.
C3_BlockingNeverInvalidLock ==
    \A p \in Procs :
        (IsSetlk(p, LockFile) /\ op[p].sleep /\ op[p].typ \in {F_RDLCK, F_WRLCK}
         /\ pc[p] = "done") => res[p] # "InvalidLock"

\* the conflicts of a request of type typ by owner with the lock state of inode
Conflict(inode, owner, typ) ==
    \/ typ = F_RDLCK /\ inode.lk_type = F_WRLCK
    \/ /\ typ = F_WRLCK /\ inode.lk_type \in {F_RDLCK, F_WRLCK}
       /\ inode.owner_set \ {owner} # {}

\* C4: a non-blocking setlk whose transaction reads a conflicting lock state
\* ends with InvalidLock, and the step that ends it leaves the store as it was.
C4_NonBlockingConflict ==
    [][\A p \in Procs :
          (/\ pc[p] = "txn" /\ IsSetlk(p, LockFile) /\ ~op[p].sleep
           /\ Conflict(LockOf(snap[p], LockFile), p, op[p].typ)
           /\ pc'[p] # "txn")
          => (pc'[p] = "done" /\ res'[p] = "InvalidLock" /\ kv' = kv
              /\ ~wrote'[p])]_vars

\* a non-blocking request has met a conflict and has returned
C4_Witness ==
    \E p \in Procs :
        /\ IsSetlk(p, LockFile) /\ ~op[p].sleep /\ pc[p] = "done"
        /\ Conflict(LockOf(snap[p], LockFile), p, op[p].typ)
        /\ LockOf(kv, LockFile).owner_set \ {p} # {}

\* a blocked shared request: setlk has gone on to setlkw and has not returned
Blocked(p) ==
    /\ IsSetlk(p, LockFile) /\ op[p].typ = F_RDLCK /\ op[p].sleep
    /\ op[p].stage = "setlkw" /\ pc[p] \in {"begin", "txn"}

Acquired(p) ==
    /\ IsSetlk(p, LockFile) /\ op[p].typ = F_RDLCK /\ op[p].sleep
    /\ pc[p] = "done" /\ res[p] = "ok" /\ p \in LockOf(kv, LockFile).owner_set

\* C5: a blocking shared request does not return while another owner holds the
\* exclusive lock, it returns only with success and the caller in the owner
\* set, and once the lock is not exclusive a blocked request is granted in the
\* end, unless the lock is taken exclusively before that.
C5_BlockedAcquireGranted ==
    /\ [](\A p \in Procs :
            (IsSetlk(p, LockFile) /\ op[p].typ = F_RDLCK /\ op[p].sleep
             /\ pc[p] = "done")
            => (Acquired(p) /\ LockOf(kv, LockFile).lk_type # F_WRLCK))
    /\ \A p \in Procs :
          (Blocked(p) /\ LockOf(kv, LockFile).lk_type # F_WRLCK)
          ~> (Acquired(p) \/ LockOf(kv, LockFile).lk_type = F_WRLCK)

\* a request that was blocked has been granted
C5_Witness ==
    \E p \in Procs : Acquired(p) /\ op[p].stage = "setlkw"

\* C6: setlk on a directory fails with InvalidLock whatever its type, never
\* goes on to setlkw, and the directory's lock state stays {F_UNLCK, {}}.
C6_DirectoryNotLocked ==
    \A i \in Inos :
        (kv[InodeKey(i)] # Absent /\ kv[InodeKey(i)].kind = "Directory") =>
            /\ LockOf(kv, i).lk_type = F_UNLCK /\ LockOf(kv, i).owner_set = {}
            /\ \A p \in Procs :
                  IsSetlk(p, i) =>
                      /\ op[p].stage = "setlk" /\ ~wrote[p]
                      /\ pc[p] = "done" => res[p] = "InvalidLock"

\* blocking requests of every type on the root directory have failed
C6_Witness ==
    \E p \in Procs :
        /\ IsSetlk(p, ROOT_INODE) /\ op[p].sleep /\ op[p].typ = F_WRLCK
        /\ pc[p] = "done" /\ res[p] = "InvalidLock"

----------------------------------------------------------------------------
(* The filesystem model: calls on an empty store or on one init has set up *)

RootStore ==
    [k \in Keys |->
        CASE k = MetaKey -> Meta(ROOT_INODE + 1)
          [] k = InodeKey(ROOT_INODE) -> NewInode(ROOT_INODE, "Directory")
          [] k = DirKey(ROOT_INODE) -> Dir(<<>>)
          [] OTHER -> Absent]

InitFsStore == kv \in {EmptyStore, RootStore} /\ InitTasks

\* one client, its calls in sequence: no commit meets a conflict
NextFs == FsCalls(1, MaxDirIno) \/ FsSteps(1)

SpecFs == InitFsStore /\ [][NextFs]_vars

(* The rename model: concurrent tasks rename, look up and unlink in the root
   directory 1 and its subdirectory "b" (inode 2), which start with the one
   regular file "a" (inode 3) in the root *)

RenameStore ==
    [k \in Keys |->
        CASE k = MetaKey -> Meta(4)
          [] k = InodeKey(ROOT_INODE) -> NewInode(ROOT_INODE, "Directory")
          [] k = InodeKey(2) -> NewInode(2, "Directory")
          [] k = InodeKey(3) -> NewInode(3, "RegularFile")
          [] k = DirKey(ROOT_INODE) ->
                Dir(<<DirItem(<<"b", MAX_NAME_LEN>>, 2, "Directory"),
                      DirItem(<<"a", 1>>, 3, "RegularFile")>>)
          [] k = DirKey(2) -> Dir(<<>>)
          [] k = IndexKey(ROOT_INODE, <<"b", MAX_NAME_LEN>>) -> Index(2)
          [] k = IndexKey(ROOT_INODE, <<"a", 1>>) -> Index(3)
          [] OTHER -> Absent]

InitRename == kv = RenameStore /\ InitTasks

NextRename ==
    \E p \in Procs :
        \/ RenameBounded(p, MaxDirIno)
        \/ Begin(p)
        \/ SpinKeyError(p)
        \/ Rollback(p)
        \/ FsCommitted(p)
        \/ Return(p)

SpecRename == InitRename /\ [][NextRename]_vars

(* The mkdir model: concurrent tasks make directories in the root directory,
   which starts empty, and in the directory 2 once it is made *)

NextMkdir ==
    \E p \in Procs :
        \/ MkdirBounded(p, MaxDirIno)
        \/ Begin(p)
        \/ SpinKeyError(p)
        \/ Rollback(p)
        \/ FsCommitted(p)
        \/ Return(p)

InitMkdir == kv = RootStore /\ InitTasks

SpecMkdir == InitMkdir /\ [][NextMkdir]_vars

(* The rmdir model: concurrent tasks remove directories and unlink names; the
   root directory has the directory "a" (inode 2), which has the regular file
   "a" (inode 3) *)

RmdirStore ==
    [k \in Keys |->
        CASE k = MetaKey -> Meta(4)
          [] k = InodeKey(ROOT_INODE) -> NewInode(ROOT_INODE, "Directory")
          [] k = InodeKey(2) -> NewInode(2, "Directory")
          [] k = InodeKey(3) -> NewInode(3, "RegularFile")
          [] k = DirKey(ROOT_INODE) -> Dir(<<DirItem(<<"a", 1>>, 2, "Directory")>>)
          [] k = DirKey(2) -> Dir(<<DirItem(<<"a", 1>>, 3, "RegularFile")>>)
          [] k = IndexKey(ROOT_INODE, <<"a", 1>>) -> Index(2)
          [] k = IndexKey(2, <<"a", 1>>) -> Index(3)
          [] OTHER -> Absent]

InitRmdir == kv = RmdirStore /\ InitTasks

NextRmdir ==
    \E p \in Procs :
        \/ Rmdir(p, MaxDirIno)
        \/ Unlink(p, MaxDirIno)
        \/ Begin(p)
        \/ SpinKeyError(p)
        \/ Rollback(p)
        \/ FsCommitted(p)
        \/ Return(p)

SpecRmdir == InitRmdir /\ [][NextRmdir]_vars

(* The init model: concurrent mounts of an empty store call init, again and
   again, and look names up *)

InitInit == kv = EmptyStore /\ InitTasks

NextInit ==
    \E p \in Procs :
        \/ InitFs(p, MaxIno)
        \/ Lookup(p, MaxDirIno)
        \/ Begin(p)
        \/ SpinKeyError(p)
        \/ Rollback(p)
        \/ FsCommitted(p)
        \/ Return(p)

SpecInit == InitInit /\ [][NextInit]_vars

(* The open model: the tasks of a mount, with or without the option
   direct_io, open the regular file with and without O_DIRECT and release
   their handles *)

OpenFlagSet == {0, 1, O_DIRECT, O_DIRECT + 1}

InitOpen ==
    /\ kv = LockStore
    /\ hub \in {[next |-> 1, handles |-> {}, direct_io |-> d] : d \in BOOLEAN}
    /\ pc = [p \in Procs |-> "idle"]
    /\ op = [p \in Procs |-> NoOp]
    /\ snap = [p \in Procs |-> EmptyStore]
    /\ stale = [p \in Procs |-> {}]
    /\ res = [p \in Procs |-> "none"]
    /\ began = [p \in Procs |-> FALSE]
    /\ wrote = [p \in Procs |-> FALSE]
    /\ granted = [p \in Procs |-> [i \in Inos |-> F_UNLCK]]
    /\ ncalls = [p \in Procs |-> 0]

NextOpen ==
    \E p \in Procs :
        \/ OpenCall(p, {LockFile}, OpenFlagSet, MaxOpen)
        \/ ReleaseCall(p, {LockFile}, 1..MaxOpen)
        \/ Return(p)

SpecOpen == InitOpen /\ [][NextOpen]_vars

(* The handle model: one task opens the regular file (inode 2) and the inode
   3, which does not exist, releases handles, seeks, reads and writes *)

HandleInos == {LockFile, MaxIno}
HandleFhs == 1..MaxOpen
Offsets == -1..1
Whences == {SEEK_SET, SEEK_CUR, SEEK_END, SEEK_END + 1}
Payloads == {<<7>>}

NextHandle ==
    \/ OpenCall(1, HandleInos, {0}, MaxOpen)
    \/ ReleaseCall(1, HandleInos, HandleFhs)
    \/ ReadCall(1, HandleInos, HandleFhs, Offsets, {MaxCursor})
    \/ WriteCall(1, HandleInos, HandleFhs, Offsets, Payloads)
    \/ LseekCall(1, HandleInos, HandleFhs, Offsets, Whences, MaxCursor)
    \/ Begin(1)
    \/ Rollback(1)
    \/ FsCommitted(1)
    \/ LseekCursor(1)
    \/ Return(1)

SpecHandle == InitLock /\ [][NextHandle]_vars

(* The data model: one task opens one handle, on the regular file (inode 2)
   or on the inode 3, which does not exist, and, from the cursor 0, writes one and two bytes
   at the start of block 0, across the end of block 0 and at the start of
   block 1, and reads two bytes there *)

DataOffsets == {0, BLOCK_SIZE - 1, BLOCK_SIZE}
DataPayloads == {<<7>>, <<8, 9>>}

NextData ==
    \/ OpenCall(1, HandleInos, {0}, 1)
    \/ WriteCall(1, HandleInos, HandleFhs, DataOffsets, DataPayloads)
    \/ ReadCall(1, HandleInos, HandleFhs, DataOffsets, {2})
    \/ Begin(1)
    \/ Rollback(1)
    \/ FsCommitted(1)
    \/ Return(1)

SpecData == InitLock /\ [][NextData]_vars

(* The attribute model: concurrent tasks set the uid of the regular file and
   request and release its lock, each task making at most MaxCalls lock
   calls *)

Uids == {<<>>} \cup {<<u>> : u \in 1..MaxUid}

NextAttr ==
    \E p \in Procs :
        \/ SetlkBounded(p)
        \/ SetattrCall(p, {LockFile}, Uids)
        \/ LockSteps(p)
        \/ FsCommitted(p)
        \/ Return(p)

SpecAttr == InitLock /\ [][NextAttr]_vars

(* The readdir model: concurrent tasks list the directories from every
   offset up to MaxReadOff and unlink names; the root directory starts with
   two entries *)

NextReaddir ==
    \E p \in Procs :
        \/ ReaddirCall(p, Inos, 0..MaxReadOff)
        \/ Unlink(p, MaxDirIno)
        \/ Begin(p)
        \/ SpinKeyError(p)
        \/ Rollback(p)
        \/ FsCommitted(p)
        \/ Return(p)

SpecReaddir == InitRename /\ [][NextReaddir]_vars

----------------------------------------------------------------------------
(* The filesystem: properties *)

\* C7: a call that has returned an error has committed no write.
C7_ErrorCommitsNothing ==
    \A p \in Procs : (pc[p] = "done" /\ res[p] # "ok") => ~wrote[p]

\* the names of a call, for the operations that take a name
NamesOf(o) ==
    CASE o.name \in {"lookup", "mkdir", "rmdir", "mknod", "create", "symlink",
                     "unlink"} -> {o.nm}
      [] o.name = "link" -> {o.newnm}
      [] o.name = "rename" -> {o.nm, o.newnm}
      [] OTHER -> {}

\* C8: a call with a name longer than MAX_NAME_LEN begins no transaction and
\* returns NameTooLong; a call whose names are at most MAX_NAME_LEN long does
\* not return NameTooLong.
C8_NameCheckedFirst ==
    \A p \in Procs :
        pc[p] # "idle" =>
            IF \E name \in NamesOf(op[p]) : NameLen(name) > MAX_NAME_LEN
            THEN ~began[p] /\ (pc[p] = "done" => res[p] = "NameTooLong")
            ELSE res[p] # "NameTooLong"

\* the names a directory lists
Listed(s, d) == {s[DirKey(d)].items[k].name : k \in 1..Len(s[DirKey(d)].items)}

\* the listings and the Index rows of the store s agree
Paired(s) ==
    /\ \A d \in Inos :
          s[DirKey(d)] # Absent =>
              \A k \in 1..Len(s[DirKey(d)].items) :
                  LET e == s[DirKey(d)].items[k] IN
                  /\ s[IndexKey(d, e.name)] = Index(e.ino)
                  /\ s[InodeKey(e.ino)] # Absent
                  /\ \A j \in 1..Len(s[DirKey(d)].items) :
                        s[DirKey(d)].items[j].name = e.name => j = k
    /\ \A d \in Inos, n \in Names :
          s[IndexKey(d, n)] # Absent =>
              s[DirKey(d)] # Absent /\ n \in Listed(s, d)

\* C9: in the committed store, every entry of a directory's listing has its
\* Index row, the row points to the entry's inode and that inode exists; no
\* name is listed twice; and every Index row is of a listed name.
C9_DirIndexPairing == Paired(kv)

----------------------------------------------------------------------------
(* Rename: properties *)

\* link(lookup(p, n), p', n') and then unlink(p, n), each a transaction of its
\* own that is run on the store s with nothing in between; the store is s when
\* a step fails
LinkThenUnlink(s, o) ==
    LET l == lookup(TxnStart(s), o.parent, o.nm) IN
    IF l.err # "ok" THEN [err |-> l.err, store |-> s]
    ELSE LET k == link(TxnStart(s), l.val, o.newparent, o.newnm) IN
         IF k.err # "ok" THEN [err |-> k.err, store |-> s]
         ELSE LET u == unlink(TxnStart(k.view), o.parent, o.nm) IN
              IF u.err # "ok" THEN [err |-> u.err, store |-> s]
              ELSE [err |-> "ok", store |-> u.view]

\* the names under which the store s has the inode i
NamesOfInode(s, i) ==
    {dn \in Inos \X Names : s[IndexKey(dn[1], dn[2])] = Index(i)}

\* the stores a task can read: the committed one and the open snapshots
Observable == {kv} \cup {snap[q] : q \in {r \in Procs : pc[r] = "txn"}}

\* the inodes that have a name when the renames start
Renamed == {i \in Inos : NamesOfInode(RenameStore, i) # {}}

RenameReturns(p) == pc[p] = "txn" /\ op[p].name = "rename" /\ pc'[p] = "done"

\* C10: a rename that returns success has changed the committed store to what
\* link(lookup(p, n), p', n') followed by unlink(p, n) make of it; a rename
\* that returns an error has changed nothing, and its error is that of the
\* step that fails on its snapshot; and no store a task can read has an inode
\* under two names or under none.
C10_RenameIsLinkThenUnlink ==
    /\ [][\A p \in Procs :
            RenameReturns(p) =>
                IF res'[p] = "ok"
                THEN LinkThenUnlink(kv, op[p]) = [err |-> "ok", store |-> kv']
                ELSE /\ kv' = kv
                     /\ LinkThenUnlink(snap[p], op[p]) =
                            [err |-> res'[p], store |-> snap[p]]]_vars
    /\ [](\A s \in Observable, i \in Renamed :
              /\ Cardinality(NamesOfInode(s, i)) = 1
              /\ s[InodeKey(i)] # Absent
              /\ s[InodeKey(i)].nlink = 1)

\* a rename from one directory into the other has returned success, after
\* both tasks have made calls
C10_Witness ==
    \E p \in Procs :
        /\ pc[p] = "done" /\ op[p].name = "rename" /\ res[p] = "ok"
        /\ op[p].parent # op[p].newparent
        /\ kv[IndexKey(op[p].parent, op[p].nm)] = Absent
        /\ kv[IndexKey(op[p].newparent, op[p].newnm)] # Absent
        /\ \A q \in Procs : ncalls[q] > 0

----------------------------------------------------------------------------
(* Concurrent mkdir: properties *)

\* p and q run mkdir with the same parent and the same name
SameMkdir(p, q) ==
    /\ p # q
    /\ op[p].name = "mkdir" /\ op[q].name = "mkdir"
    /\ op[p].parent = op[q].parent /\ op[p].nm = op[q].nm

\* the entries of the name in the listing of the directory d of the store s
EntriesOf(s, d, name) ==
    {k \in 1..Len(s[DirKey(d)].items) : s[DirKey(d)].items[k].name = name}

\* C11: of two mkdir calls with the same parent and name whose transactions
\* are both open on a store without the name, the one that commits returns
\* success and leaves the other with a conflict on its commit; and when both
\* calls, each the first of its task, have returned from the empty root
\* directory and no other task has made a call, one has returned success and
\* the other FileExist, the name has one entry and one inode has been
\* allocated.
C11_ConcurrentMkdir ==
    /\ [][\A p, q \in Procs :
            (/\ SameMkdir(p, q)
             /\ pc[p] = "txn" /\ pc[q] = "txn"
             /\ Attempt(p).err = "ok" /\ Attempt(q).err = "ok"
             /\ pc'[p] = "done")
            => /\ res'[p] = "ok"
               /\ pc'[q] = "txn" /\ snap'[q] = snap[q]
               /\ Attempt(q).w \cap stale'[q] # {}]_vars
    /\ [](\A p, q \in Procs :
            (/\ SameMkdir(p, q)
             /\ ncalls[p] = 1 /\ ncalls[q] = 1
             /\ \A r \in Procs \ {p, q} : ncalls[r] = 0
             /\ pc[p] = "done" /\ pc[q] = "done"
             /\ op[p].parent = ROOT_INODE /\ check_file_name(op[p].nm))
            => /\ {res[p], res[q]} = {"ok", "FileExist"}
               /\ Cardinality(EntriesOf(kv, ROOT_INODE, op[p].nm)) = 1
               /\ kv[IndexKey(ROOT_INODE, op[p].nm)] = Index(ROOT_INODE + 1)
               /\ MetaNext(kv) = ROOT_INODE + 2
               /\ \A i \in Inos : i > ROOT_INODE + 1 => kv[InodeKey(i)] = Absent)

\* one of the two calls has returned success and the other, which had begun
\* a transaction before, is about to begin its next one
C11_Witness ==
    \E p, q \in Procs :
        /\ SameMkdir(p, q)
        /\ ncalls[p] = 1 /\ ncalls[q] = 1
        /\ pc[p] = "done" /\ res[p] = "ok"
        /\ pc[q] = "begin" /\ began[q]

----------------------------------------------------------------------------
(* rmdir: properties *)

\* C12: an rmdir whose transaction finds no Index row of the name returns
\* FileNotFound, one that finds the target's listing non-empty returns
\* DirNotEmpty, and neither changes the committed store.
C12_RmdirRejects ==
    [][\A p \in Procs :
          (pc[p] = "txn" /\ op[p].name = "rmdir" /\ pc'[p] = "done") =>
              LET row == snap[p][IndexKey(op[p].parent, op[p].nm)] IN
              IF row = Absent
              THEN res'[p] = "FileNotFound" /\ kv' = kv
              ELSE (/\ snap[p][DirKey(row.ino)] # Absent
                    /\ Len(snap[p][DirKey(row.ino)].items) > 0)
                   => res'[p] = "DirNotEmpty" /\ kv' = kv]_vars

\* rmdir of the directory "a", which lists a file, has returned DirNotEmpty,
\* and the row, the inode and the listings are those of the start
C12_Witness ==
    \E p \in Procs :
        /\ pc[p] = "done" /\ op[p].name = "rmdir" /\ res[p] = "DirNotEmpty"
        /\ kv = RmdirStore

----------------------------------------------------------------------------
(* init: properties *)

\* C13: an init whose transaction finds the root inode returns success and
\* writes nothing; one that does not find it makes the store that of the
\* first init; and the committed store is always the empty one or that of the
\* first init, with the root inode alone.
C13_InitIdempotent ==
    /\ [][\A p \in Procs :
            (pc[p] = "txn" /\ op[p].name = "init" /\ pc'[p] = "done") =>
                /\ res'[p] = "ok"
                /\ IF snap[p][InodeKey(ROOT_INODE)] # Absent
                   THEN kv' = kv /\ Attempt(p).w = {}
                   ELSE kv = EmptyStore /\ kv' = RootStore]_vars
    /\ [](/\ kv \in {EmptyStore, RootStore}
          /\ \A i \in Inos : i # ROOT_INODE => kv[InodeKey(i)] = Absent)

\* two mounts have returned from init: one has made the root directory, the
\* other has written nothing
C13_Witness ==
    \E p, q \in Procs :
        /\ pc[p] = "done" /\ op[p].name = "init" /\ res[p] = "ok" /\ wrote[p]
        /\ pc[q] = "done" /\ op[q].name = "init" /\ res[q] = "ok" /\ ~wrote[q]
        /\ kv = RootStore

----------------------------------------------------------------------------
(* spin: properties *)

----------------------------------------------------------------------------
(* open: properties *)

\* a & b on non-negative integers
RECURSIVE BitAnd(_, _)
BitAnd(a, b) ==
    IF a = 0 \/ b = 0 THEN 0
    ELSE 2 * BitAnd(a \div 2, b \div 2) + (IF a % 2 = 1 /\ b % 2 = 1 THEN 1 ELSE 0)

\* C19: an open has returned the flag FOPEN_DIRECT_IO iff the mount has the
\* option direct_io or the call's flags have the bit O_DIRECT.
C19_DirectIoFlag ==
    \A p \in Procs :
        (pc[p] = "done" /\ op[p].name = "open") =>
            (BitAnd(op[p].out, FOPEN_DIRECT_IO) # 0
                <=> (hub.direct_io \/ BitAnd(op[p].flags, O_DIRECT) # 0))

----------------------------------------------------------------------------
(* Handles: properties *)

\* p calls an operation of names, which acts on the handle (ino, fh)
Calls(p, names) == pc[p] = "idle" /\ pc'[p] # "idle" /\ op'[p].name \in names

\* the pairs (ino, fh) of the table
OpenPairs(h) == {<<x.ino, x.fh>> : x \in h.handles}

\* C14: open returns the table's next fh, which is above every fh of the
\* table and below the next fh after the call, and the next fh never goes
\* down; read, write, lseek and release return FhNotFound iff (ino, fh) is
\* not in the table, which holds the handles opened and not yet released;
\* release takes the one handle (ino, fh) out of the table; and no other
\* call changes which handles the table holds.
C14_HandleLifecycle ==
    /\ [][\A p \in Procs :
            /\ Calls(p, {"open"}) =>
                  /\ op'[p].fh = hub.next /\ hub'.next > hub.next
                  /\ \A x \in hub.handles : x.fh < op'[p].fh
                  /\ OpenPairs(hub') = OpenPairs(hub) \cup {<<op'[p].ino, op'[p].fh>>}
            /\ Calls(p, {"read", "write", "lseek", "release"}) =>
                  ((pc'[p] = "done" /\ res'[p] = "FhNotFound")
                      <=> <<op'[p].ino, op'[p].fh>> \notin OpenPairs(hub))
            /\ Calls(p, {"release"}) =>
                  /\ pc'[p] = "done"
                  /\ OpenPairs(hub') = OpenPairs(hub) \ {<<op'[p].ino, op'[p].fh>>}
                  /\ \A x \in hub.handles :
                        <<x.ino, x.fh>> # <<op'[p].ino, op'[p].fh>> => x \in hub'.handles
            /\ (pc[p] # "idle" \/ Calls(p, {"read", "write", "lseek"})) =>
                  OpenPairs(hub') = OpenPairs(hub)
            /\ hub'.next >= hub.next]_vars
    /\ [](\A p \in Procs :
            (pc[p] = "done" /\ res[p] = "FhNotFound") =>
                op[p].name \in {"read", "write", "lseek", "release"})

\* the second release of a handle has returned FhNotFound while the other
\* handle of the same inode is still in the table
C14_Witness ==
    /\ pc[1] = "done" /\ op[1].name = "release" /\ res[1] = "FhNotFound"
    /\ op[1].fh < hub.next
    /\ \E x \in hub.handles : x.ino = op[1].ino /\ x.fh # op[1].fh
    /\ \A x \in hub.handles : x.fh # op[1].fh

\* the start of p's read or write: the cursor of its handle plus its offset
EffectiveStart(p) == CursorOf(hub, op[p].ino, op[p].fh) + op[p].off

\* the byte at position pos of the file in the committed store
Stored(ino, pos) == ByteAt(TxnStart(kv), ino, pos)

\* C15: a read or write on a handle of the table whose cursor + offset is
\* negative returns InvalidOffset at once, with no transaction begun and the
\* store as it was, and otherwise begins its data transaction at cursor +
\* offset; a read that has returned ok has returned the file's bytes from
\* cursor + offset on, and after a write that has returned ok the file has
\* the payload from cursor + offset on.
C15_EffectiveStart ==
    /\ [][\A p \in Procs :
            (/\ Calls(p, {"read", "write"})
             /\ <<op'[p].ino, op'[p].fh>> \in OpenPairs(hub))
            => LET start == CursorOf(hub, op'[p].ino, op'[p].fh) + op'[p].off IN
               IF start < 0
               THEN /\ pc'[p] = "done" /\ res'[p] = "InvalidOffset"
                    /\ ~began'[p] /\ kv' = kv
               ELSE pc'[p] = "begin" /\ op'[p].start = start]_vars
    /\ [](\A p \in Procs :
            /\ (pc[p] = "done" /\ res[p] = "InvalidOffset"
                    /\ op[p].name \in {"read", "write"})
                  => ~began[p] /\ ~wrote[p]
            /\ (pc[p] = "done" /\ res[p] = "ok" /\ op[p].name = "read") =>
                  LET n == Max(0, Min(op[p].len,
                                      kv[InodeKey(op[p].ino)].size - EffectiveStart(p)))
                  IN  op[p].out =
                          [i \in 1..n |-> Stored(op[p].ino, EffectiveStart(p) + i - 1)]
            /\ (pc[p] = "done" /\ res[p] = "ok" /\ op[p].name = "write") =>
                  /\ op[p].out = Len(op[p].data)
                  /\ \A i \in 1..Len(op[p].data) :
                        Stored(op[p].ino, EffectiveStart(p) + i - 1) = op[p].data[i])

\* a write with a negative offset on a handle whose cursor is past 0 has
\* returned ok
C15_Witness ==
    /\ pc[1] = "done" /\ op[1].name = "write" /\ res[1] = "ok"
    /\ op[1].off < 0
    /\ CursorOf(hub, op[1].ino, op[1].fh) > 0

\* C16: lseek on a handle of the table whose inode exists: with whence
\* SEEK_SET, SEEK_CUR, SEEK_END the target is offset, cursor + offset, size +
\* offset; a target of 0 or more becomes the cursor and is returned, also
\* when it is beyond size; a negative target returns InvalidOffset and any
\* other whence UnknownWhence, the cursor as it was.
C16_Lseek ==
    [][\A p \in Procs :
          (pc[p] = "after" /\ op[p].name = "lseek" /\ pc'[p] # "after") =>
              LET cursor == CursorOf(hub, op[p].ino, op[p].fh)
                  size == kv[InodeKey(op[p].ino)].size
                  target == CASE op[p].whence = SEEK_SET -> op[p].off
                              [] op[p].whence = SEEK_CUR -> cursor + op[p].off
                              [] op[p].whence = SEEK_END -> size + op[p].off
                              [] OTHER -> -1
              IN  /\ pc'[p] = "done"
                  /\ IF op[p].whence \notin {SEEK_SET, SEEK_CUR, SEEK_END}
                     THEN res'[p] = "UnknownWhence" /\ hub' = hub
                     ELSE IF target < 0
                     THEN res'[p] = "InvalidOffset" /\ hub' = hub
                     ELSE /\ res'[p] = "ok" /\ op'[p].out = target
                          /\ CursorOf(hub', op[p].ino, op[p].fh) = target
                          /\ OpenPairs(hub') = OpenPairs(hub)]_vars

\* an lseek with SEEK_END has returned a cursor beyond the size of a file
\* that is not empty
C16_Witness ==
    /\ pc[1] = "done" /\ op[1].name = "lseek" /\ res[1] = "ok"
    /\ op[1].whence = SEEK_END
    /\ kv[InodeKey(op[1].ino)].size > 0
    /\ op[1].out > kv[InodeKey(op[1].ino)].size
    /\ CursorOf(hub, op[1].ino, op[1].fh) = op[1].out

----------------------------------------------------------------------------
(* readdir: properties *)

\* the sequence seq without its first k elements
Suffix(seq, k) == [i \in 1..Max(0, Len(seq) - k) |-> seq[i + k]]

\* "..", ".", and the stored entries of the directory ino as p's transaction
\* read them
Listing(p) ==
    <<DirItem(<<"..", 2>>, ROOT_INODE, "Directory"),
      DirItem(<<".", 1>>, op[p].ino, "Directory")>>
    \o snap[p][DirKey(op[p].ino)].items

\* C18: a readdir that has returned ok has returned the sequence "..", ".",
\* stored entries in stored order, without its first offset elements; and the
\* reply from an offset j further on is the reply without its first j
\* elements.
C18_ReaddirSuffix ==
    \A p \in Procs :
        (pc[p] = "done" /\ op[p].name = "readdir" /\ res[p] = "ok") =>
            /\ op[p].out = Suffix(Listing(p), op[p].off)
            /\ \A j \in 0..MaxReadOff :
                  ReaddirReply(op[p].ino, op[p].off + j,
                               snap[p][DirKey(op[p].ino)].items)
                      = Suffix(op[p].out, j)

\* a readdir from offset 3 has returned the second stored entry alone
C18_Witness ==
    \E p \in Procs :
        /\ pc[p] = "done" /\ op[p].name = "readdir" /\ res[p] = "ok"
        /\ op[p].off = 3
        /\ Len(snap[p][DirKey(op[p].ino)].items) = 2
        /\ op[p].out = <<snap[p][DirKey(op[p].ino)].items[2]>>

----------------------------------------------------------------------------
(* The block store: properties *)

\* the positions of the bytes of blocks 0..MaxBlock
Positions == 0..((MaxBlock + 1) * BLOCK_SIZE - 1)

\* C17: when a write of the payload B at the start k commits, a read of |B|
\* bytes at k in the store it leaves returns B, every byte of the file
\* outside k .. k + |B| - 1 is the byte it was, and the size is the larger of
\* the size it was and k + |B|.
C17_WriteReadRoundTrip ==
    [][\A p \in Procs :
          (/\ pc[p] = "txn" /\ op[p].name = "write"
           /\ pc'[p] = "done" /\ res'[p] = "ok")
          => LET ino == op[p].ino
                 k == op[p].start
                 B == op[p].data
                 old == TxnStart(kv)
                 new == TxnStart(kv')
             IN  /\ read_data(new, ino, k, Len(B)).val = B
                 /\ \A pos \in Positions :
                       (pos < k \/ pos >= k + Len(B))
                           => ByteAt(new, ino, pos) = ByteAt(old, ino, pos)
                 /\ kv'[InodeKey(ino)].size
                        = Max(kv[InodeKey(ino)].size, k + Len(B))
                 /\ op'[p].out = Len(B)]_vars

\* a read has returned the two bytes written across the end of block 0, in
\* a file whose first byte was never written and whose byte after them is
\* the one an earlier write at the start of block 1 left there
C17_Witness ==
    /\ pc[1] = "done" /\ op[1].name = "read" /\ res[1] = "ok"
    /\ op[1].start = BLOCK_SIZE - 1 /\ op[1].out = <<8, 9>>
    /\ Stored(LockFile, 0) = 0
    /\ Stored(LockFile, BLOCK_SIZE + 1) = 9
    /\ kv[InodeKey(LockFile)].size = BLOCK_SIZE + 2

----------------------------------------------------------------------------
(* The lock state machine: the transitions *)

\* the lock of the regular file is exclusive and o is its owner
ExclusiveOf(s, o) ==
    LockOf(s, LockFile).lk_type = F_WRLCK /\ LockOf(s, LockFile).owner_set = {o}

\* C21: a setlk(exclusive) by the owner that holds the exclusive lock,
\* blocking or not, returns success and leaves the lock exclusive with that
\* owner alone.
C21_HolderReRequest ==
    \A p \in Procs :
        (/\ IsSetlk(p, LockFile) /\ op[p].typ = F_WRLCK /\ pc[p] = "done"
         /\ ExclusiveOf(snap[p], p))
        => (res[p] = "ok" /\ ExclusiveOf(kv, p))

\* p's transaction, of setlk or of setlkw, for a request of type typ on the
\* regular file ends in this step
Ends(p, typ) ==
    /\ IsSetlk(p, LockFile) /\ op[p].typ = typ
    /\ pc[p] = "txn" /\ pc'[p] # "txn"

\* p's request is granted in this step
Granted(p) == pc'[p] = "done" /\ res'[p] = "ok"

\* C22: a transaction of setlk or setlkw for the exclusive lock that reads
\* the lock as shared with owner set S: when S = {o} it is granted, which
\* makes the lock exclusive with owner o alone, unless its commit conflicts
\* and it is run again; when S has another owner it is not granted, and it
\* leaves the lock's type and owner set as they were.
C22_UpgradeRule ==
    [][\A p \in Procs :
          (Ends(p, F_WRLCK) /\ LockOf(snap[p], LockFile).lk_type = F_RDLCK)
          => LET S == LockOf(snap[p], LockFile).owner_set IN
             /\ Granted(p) => S = {p}
             /\ S = {p} =>
                   \/ Granted(p) /\ ExclusiveOf(kv', p)
                   \/ /\ pc'[p] = "begin" /\ op'[p] = op[p] /\ kv' = kv
                      /\ InodeKey(LockFile) \in stale[p]
             /\ S # {p} =>
                   /\ kv' = kv /\ granted' = granted
                   /\ pc'[p] = "done" => res'[p] = "InvalidLock"]_vars

\* a blocked request for the exclusive lock was granted by a transaction of
\* setlkw that read the lock as shared with the caller as its one owner
C22_Witness ==
    \E p \in Procs :
        /\ IsSetlk(p, LockFile) /\ op[p].typ = F_WRLCK /\ op[p].stage = "setlkw"
        /\ pc[p] = "done" /\ res[p] = "ok"
        /\ LockOf(snap[p], LockFile).lk_type = F_RDLCK
        /\ LockOf(snap[p], LockFile).owner_set = {p}
        /\ ExclusiveOf(kv, p)

\* C23: an unlock by owner o on the regular file returns success; the step
\* that commits it removes o from the owner set, makes the lock's type
\* F_UNLCK when the set becomes empty and leaves it as it was otherwise, and
\* changes nothing else: no other owner is removed, an exclusive lock of
\* another owner and a free lock stay as they were.
C23_UnlockTransitions ==
    /\ [][\A p \in Procs :
            Ends(p, F_UNLCK) =>
                \/ /\ pc'[p] = "begin" /\ op'[p] = op[p] /\ kv' = kv
                   /\ InodeKey(LockFile) \in stale[p]
                \/ /\ Granted(p)
                   /\ LET old == LockOf(kv, LockFile)
                          owners == old.owner_set \ {p}
                      IN  kv' = [kv EXCEPT ![InodeKey(LockFile)] =
                                     [old EXCEPT !.owner_set = owners,
                                                 !.lk_type = IF owners = {}
                                                             THEN F_UNLCK
                                                             ELSE old.lk_type]]]_vars
    /\ [](\A p \in Procs :
            (IsSetlk(p, LockFile) /\ op[p].typ = F_UNLCK /\ pc[p] = "done")
                => res[p] = "ok")

\* an unlock by an owner that is not the holder has returned and the
\* exclusive lock of the holder is in place
C23_Witness ==
    \E p, q \in Procs :
        /\ p # q
        /\ IsSetlk(p, LockFile) /\ op[p].typ = F_UNLCK
        /\ pc[p] = "done" /\ res[p] = "ok" /\ wrote[p]
        /\ ExclusiveOf(snap[p], q) /\ ExclusiveOf(kv, q)

\* C25: in every committed store an exclusive lock has exactly one owner,
\* and the step that grants a setlk for the shared or the exclusive lock, in
\* setlk or in setlkw, leaves the caller in the owner set and the lock's type
\* equal to the type requested.
C25_ExclusiveHasOneOwner ==
    /\ [](\A i \in Inos :
            (kv[InodeKey(i)] # Absent /\ LockOf(kv, i).lk_type = F_WRLCK)
                => Cardinality(LockOf(kv, i).owner_set) = 1)
    /\ [][\A p \in Procs, typ \in {F_RDLCK, F_WRLCK} :
            (Ends(p, typ) /\ Granted(p))
                => /\ p \in LockOf(kv', LockFile).owner_set
                   /\ LockOf(kv', LockFile).lk_type = typ]_vars

\* a blocked request for the exclusive lock was granted by a transaction of
\* setlkw that read the lock as free
C25_Witness ==
    \E p \in Procs :
        /\ IsSetlk(p, LockFile) /\ op[p].typ = F_WRLCK /\ op[p].stage = "setlkw"
        /\ pc[p] = "done" /\ res[p] = "ok"
        /\ LockOf(snap[p], LockFile).lk_type = F_UNLCK
        /\ ExclusiveOf(kv, p)

----------------------------------------------------------------------------
(* Concurrent updates of one inode: properties *)

\* the store after p's closure has run on the store s and its writes are in
RunOn(p, s) == Closure(p, op[p], s).view

\* p's transaction ends in this step and the step changes the store
Commits(p) == pc[p] = "txn" /\ pc'[p] # "txn" /\ kv' # kv

\* C24: every transaction of setattr, setlk or setlkw that changes the
\* committed store changes it to what its closure makes of the store it
\* commits on, so the committed inode is that of the operations run one after
\* the other in the order of their commits: a setattr's commit sets the uid
\* and leaves the lock as committed before it, a lock call's commit leaves
\* the uid as committed before it; and an owner that was granted a lock and
\* has not released it is in the committed owner set.
C24_NoLostUpdate ==
    /\ [][\A p \in Procs :
            Commits(p) =>
                /\ kv' = RunOn(p, kv)
                /\ op[p].name = "setattr" =>
                      /\ LockOf(kv', LockFile).lk_type = LockOf(kv, LockFile).lk_type
                      /\ LockOf(kv', LockFile).owner_set
                            = LockOf(kv, LockFile).owner_set
                      /\ LockOf(kv', LockFile).uid = op[p].uid[1]
                /\ op[p].name = "setlk" =>
                      LockOf(kv', LockFile).uid = LockOf(kv, LockFile).uid]_vars
    /\ [](\A p \in Procs :
            granted[p][LockFile] # F_UNLCK
                => p \in LockOf(kv, LockFile).owner_set)

\* a setattr whose commit met a conflict is about to begin its next
\* transaction, and the exclusive lock another owner was granted meanwhile is
\* in the committed inode
C24_Witness ==
    \E p, q \in Procs :
        /\ p # q
        /\ op[p].name = "setattr" /\ op[p].uid # <<>>
        /\ pc[p] = "begin" /\ began[p]
        /\ granted[q][LockFile] = F_WRLCK /\ ExclusiveOf(kv, q)

====
